---- MODULE Spec2Model ----
(***************************************************************************)
(* A model of jason::Matrix (src/src/lib/Matrix.cc), the dense matrix of   *)
(* the mRVM library, built on GSL blocks and a CBLAS dgemm.                *)
(*                                                                         *)
(* Three state machines share the module:                                  *)
(*   Spec        the Matrix object: Clone, Set, Invert, Multiply, ~Matrix  *)
(*   SpecFile    the file constructor Matrix(filename), one fgetc per      *)
(*               step (FairSpecFile adds the fairness of a running loop)   *)
(*   SpecSphere  Matrix::Sphere                                            *)
(*                                                                         *)
(* Numbers.  A double is modelled exactly.  A block of integers carries    *)
(* den = 1; the block an inversion produces carries the determinant as a   *)
(* common denominator (cell value = data[i] / den, den = 0: non-finite).   *)
(* Sphere's cells are the surds (n / d) * sqrt(ra / rb).                   *)
(*                                                                         *)
(* Buffers are row-major as in GSL: cell (row, col) of a block is          *)
(* data[row * size2 + col], C index i being data[i + 1] here.              *)
(***************************************************************************)
EXTENDS Integers, Sequences, FiniteSets, TLC

VARIABLES
  mem,      \* block id -> gsl block, for the blocks a live object points to
  this,     \* block id of the receiver's this->m
  res,      \* block id of the object the last call returned, 0: none
  call,     \* the last call: its name, arguments and what it did
  leaked,   \* blocks allocated, never freed, and no longer pointed to
  status,   \* "ok" | "aborted" (GSL's or CBLAS's error handler ended the process)
  file,     \* the characters of the file being read
  fpos,     \* the stream's position, 0-based
  feof,     \* the stream's end-of-file indicator
  pc,       \* where the file constructor is
  lastChar, \* the counting loop's lastChar
  count,    \* the counting loop's count
  rows,     \* the file constructor's rows
  cols,     \* the file constructor's cols
  fm,       \* the block the file constructor built
  reads,    \* fgetc calls made so far, modulo 2
  sm,       \* the block Sphere works on
  spc       \* where Sphere is: "idle" | "ready" | "done"

matVars == <<mem, this, res, call, leaked, status>>
fileVars == <<file, fpos, feof, pc, lastChar, count, rows, cols, fm, reads>>
sphVars == <<sm, spc>>
vars == <<mem, this, res, call, leaked, status,
          file, fpos, feof, pc, lastChar, count, rows, cols, fm, reads, sm, spc>>

----------------------------------------------------------------------------
(* Bounds *)

\* the receiver has at most MaxCells cells
MaxCells == 4
\* the argument of Multiply has at most MaxOtherCells cells
MaxOtherCells == 2
\* cells of the inputs are drawn from 0..MaxVal
MaxVal == 1
\* calls that leak are made while fewer than MaxLeaked blocks are lost
MaxLeaked == 2
\* a file has at most MaxFileLen characters (the spec's example file apart)
MaxFileLen == 5
\* the matrix Sphere works on has at most SphMaxCells cells, over 0..SphMaxVal
SphMaxCells == 6
SphMaxVal == 2

----------------------------------------------------------------------------
(* Helpers *)

At(data, i) == data[i + 1]

RECURSIVE SumSeq(_)
SumSeq(s) == IF s = <<>> THEN 0 ELSE Head(s) + SumSeq(Tail(s))

Max(a, b) == IF a >= b THEN a ELSE b

Shapes(maxCells) ==
  {hw \in (1..maxCells) \X (1..maxCells) : hw[1] * hw[2] <= maxCells}

Block(kind, size1, size2, data, den) ==
  [kind |-> kind, size1 |-> size1, size2 |-> size2, data |-> data, den |-> den]

NoBlock == Block("none", 0, 0, <<>>, 1)

\* every integer matrix of at most maxCells cells over 0..maxVal
Matrices(maxCells, maxVal) ==
  UNION {{Block("matrix", hw[1], hw[2], d, 1) :
            d \in [1..(hw[1] * hw[2]) -> 0..maxVal]} : hw \in Shapes(maxCells)}

\* every integer vector of at most maxLen cells over 0..maxVal
Vectors(maxLen, maxVal) ==
  UNION {{Block("vector", n, 1, d, 1) : d \in [1..n -> 0..maxVal]} :
            n \in 1..maxLen}

\* what an uninitialized allocation of n cells may hold
Uninit(n) == [1..n -> 0..MaxVal]

Fresh(m) == CHOOSE id \in 1..(Cardinality(DOMAIN m) + 1) : id \notin DOMAIN m

Release(m, id) == [i \in (DOMAIN m) \ {id} |-> m[i]]

----------------------------------------------------------------------------
(* Matrix: accessors and constructors *)

Height(b) == b.size1

Width(b) == b.size2

GslMatrixGet(b, row, col) == At(b.data, row * b.size2 + col)

GslMatrixSet(b, row, col, val) ==
  [b EXCEPT !.data = [@ EXCEPT ![row * b.size2 + col + 1] = val]]

\* Matrix(data, height, width): every cell of the new
\* block is written, from data[row * width + col]
MatrixFromData(data, height, width) ==
  Block("matrix", height, width,
        [k \in 1..(height * width) |->
           LET row == (k - 1) \div width
               col == (k - 1) % width
           IN At(data, row * width + col)],
        1)

\* Matrix::Clone
Clone(b) == MatrixFromData(b.data, Width(b), Height(b))

----------------------------------------------------------------------------
(* Matrix::Invert *)

\* the loop of CloneGSLMatrix from cell k on: this->Set(row, col,
\* *(this->m->data + row * width + col)), on the receiver's own block b
RECURSIVE CloneLoop(_, _, _, _)
CloneLoop(b, height, width, k) ==
  IF k >= height * width THEN b
  ELSE LET row == k \div width
           col == k % width
       IN CloneLoop(GslMatrixSet(b, row, col, At(b.data, row * width + col)),
                    height, width, k + 1)

\* CloneGSLMatrix reading the cells through its local m, the fresh block,
\* instead of this->m (the local shadows the member): the receiver gets the
\* fresh block's cells
CloneGSLMatrixReadsLocal(b, garbage) ==
  [recv |-> [b EXCEPT !.data = garbage],
   copy |-> Block("matrix", Height(b), Width(b), garbage, 1)]

\* Matrix::CloneGSLMatrix on receiver b, the fresh block holding garbage:
\* the receiver after the loop, and the block returned, which no statement
\* writes
CloneGSLMatrix(b, garbage) ==
  [recv |-> CloneLoop(b, Height(b), Width(b), 0),
   copy |-> Block("matrix", Height(b), Width(b), garbage, 1)]

\* the n x n buffer d without row i and column j
MinorData(n, d, i, j) ==
  [k \in 1..((n - 1) * (n - 1)) |->
     LET r == (k - 1) \div (n - 1)
         c == (k - 1) % (n - 1)
         rr == IF r < i THEN r ELSE r + 1
         cc == IF c < j THEN c ELSE c + 1
     IN At(d, rr * n + cc)]

Sign(i) == IF i % 2 = 0 THEN 1 ELSE -1

\* the determinant of the n x n buffer d, which is the product of the
\* pivots gsl_linalg_LU_decomp leaves (up to the permutation's sign)
RECURSIVE Det(_, _)
Det(n, d) ==
  IF n = 0 THEN 1
  ELSE IF n = 1 THEN At(d, 0)
  ELSE SumSeq([j \in 1..n |->
                 Sign(j - 1) * At(d, j - 1) * Det(n - 1, MinorData(n, d, 0, j - 1))])

\* gsl_linalg_LU_decomp, then gsl_linalg_LU_invert: the inverse of the
\* n x n block lu, exactly, as the adjugate over the determinant
LUInvert(lu) ==
  LET n == lu.size1
      det == Det(n, lu.data)
  IN Block("matrix", n, n,
           [k \in 1..(n * n) |->
              LET i == (k - 1) \div n
                  j == (k - 1) % n
              IN Sign(i + j) * Det(n - 1, MinorData(n, lu.data, j, i))],
           det)

\* what Matrix::Invert can do on receiver b whose working copy holds
\* garbage: each outcome is the receiver afterwards, the block returned (or
\* an abort), and the LU input.  GSL's default error handler aborts; a
\* singular input aborts (GSL 2) or yields non-finite cells (GSL 1).
InvertOutcomes(b, garbage) ==
  LET n == Width(b)
      cl == CloneGSLMatrix(b, garbage)
      inverse == LUInvert(cl.copy)
      out(st, r) == [status |-> st, recv |-> cl.recv, ret |-> r, copy |-> cl.copy]
  IN IF Height(b) # Width(b)
       THEN {out("aborted", NoBlock)}
     ELSE IF inverse.den = 0
       THEN {out("aborted", NoBlock),
             out("ok", [MatrixFromData(inverse.data, n, n) EXCEPT !.den = 0])}
     ELSE {out("ok", [MatrixFromData(inverse.data, n, n) EXCEPT !.den = inverse.den])}

----------------------------------------------------------------------------
(* Matrix::Multiply *)

\* CBLAS's check of dgemm's leading dimensions (row-major, A not
\* transposed, B transposed): a failure goes to xerbla
DgemmParamsOk(M, N, K, lda, ldb, ldc) ==
  /\ lda >= Max(1, K)
  /\ ldb >= Max(1, K)
  /\ ldc >= Max(1, N)

\* sum over k < K of A[i * lda + k] * B[j * ldb + k]
DgemmCell(K, A, lda, B, ldb, i, j) ==
  SumSeq([k \in 1..K |-> At(A, i * lda + (k - 1)) * At(B, j * ldb + (k - 1))])

\* cblas_dgemm(CblasRowMajor, CblasNoTrans, CblasTrans, M, N, K, 1.0, A, lda,
\* B, ldb, 0.0, C, ldc): the buffer C afterwards, C[i * ldc + j] written for
\* every i < M, j < N that falls inside it
Dgemm(M, N, K, A, lda, B, ldb, C, ldc) ==
  [idx \in 1..Len(C) |->
     LET ij == {p \in (0..(M - 1)) \X (0..(N - 1)) : p[1] * ldc + p[2] = idx - 1}
     IN IF ij = {} THEN C[idx]
        ELSE LET p == CHOOSE q \in ij : \A q2 \in ij : q[1] >= q2[1]
             IN DgemmCell(K, A, lda, B, ldb, p[1], p[2])]

\* dgemm writes a cell past the end of C
DgemmOverrun(M, N, ldc, C) ==
  \E p \in (0..(M - 1)) \X (0..(N - 1)) : p[1] * ldc + p[2] >= Len(C)

\* what an uninitialized allocation of n cells holds when only a failed
\* call shows it: the cells are arbitrary, the model draws one value for all
UninitFill(n) == {[i \in 1..n |-> g] : g \in 0..MaxVal}

\* Multiply(Matrix) handing the product's dimensions to the constructor in
\* the wrong order, as width and height
MultiplyMatrixOutcomesSwapped(a, other) ==
  LET M == Height(a)
      N == Height(other)
      K == Width(a)
      out(st, r) == [status |-> st, ret |-> r, oob |-> FALSE]
  IN IF DgemmParamsOk(M, N, K, Width(a), Width(other), N)
       THEN {out("ok", MatrixFromData(
                         Dgemm(M, N, K, a.data, Width(a), other.data, Width(other),
                               [i \in 1..(M * N) |-> 0], N),
                         Height(other), Height(a)))}
       ELSE {out("aborted", NoBlock)}
            \cup {out("ok", MatrixFromData(g, Height(other), Height(a))) :
                    g \in UninitFill(M * N)}

\* what Matrix::Multiply(Matrix *other) can do on receiver a: the block
\* returned, or an abort.  xerbla aborts (GSL's CBLAS) or returns with C
\* untouched (reference BLAS, OpenBLAS).
MultiplyMatrixOutcomes(a, other) ==
  LET M == Height(a)
      N == Height(other)
      K == Width(a)
      out(st, r) == [status |-> st, ret |-> r, oob |-> FALSE]
  IN IF DgemmParamsOk(M, N, K, Width(a), Width(other), N)
       THEN {out("ok", MatrixFromData(
                         Dgemm(M, N, K, a.data, Width(a), other.data, Width(other),
                               [i \in 1..(M * N) |-> 0], N),
                         Height(a), Height(other)))}
       ELSE {out("aborted", NoBlock)}
            \cup {out("ok", MatrixFromData(g, Height(a), Height(other))) :
                    g \in UninitFill(M * N)}

\* Vector(double *data, size_t size): a vector of size cells copied from data
VectorFromData(data, size) ==
  Block("vector", size, 1, [k \in 1..size |-> At(data, k - 1)], 1)

\* Vector::Size
Size(v) == v.size1

\* what Matrix::Multiply(Vector *vec) can do on receiver a: the vector
\* returned, or an abort; oob: dgemm wrote past the end of result, after
\* which the process may also crash
MultiplyVectorOutcomes(a, vec) ==
  LET M == Height(a)
      N == Size(vec)
      K == Width(a)
      result == [i \in 1..Size(vec) |-> 0]
      out(st, r, o) == [status |-> st, ret |-> r, oob |-> o]
  IN IF DgemmParamsOk(M, N, K, Width(a), Size(vec), 1)
       THEN LET C == Dgemm(M, N, K, a.data, Width(a), vec.data, Size(vec), result, 1)
                over == DgemmOverrun(M, N, 1, result)
            IN {out("ok", VectorFromData(C, Len(result)), over)}
               \cup (IF over THEN {out("aborted", NoBlock, TRUE)} ELSE {})
       ELSE {out("aborted", NoBlock, FALSE),
             out("ok", VectorFromData(result, Len(result)), FALSE)}

----------------------------------------------------------------------------
(* The Matrix object's state machine *)

Call(op, other, copy, oob) ==
  [op |-> op, other |-> other, copy |-> copy, oob |-> oob]

fileIdle ==
  /\ file = <<>> /\ fpos = 0 /\ feof = FALSE /\ pc = "idle"
  /\ lastChar = "" /\ count = 0 /\ rows = 0 /\ cols = 0 /\ fm = NoBlock
  /\ reads = 0

sphIdle == sm = NoBlock /\ spc = "idle"

matIdle ==
  /\ mem = <<>> /\ this = 0 /\ res = 0 /\ leaked = 0 /\ status = "ok"
  /\ call = Call("none", NoBlock, NoBlock, FALSE)

\* a receiver built by Matrix(data, height, width)
Init ==
  /\ \E b \in Matrices(MaxCells, MaxVal) :
       mem = (1 :> MatrixFromData(b.data, Height(b), Width(b)))
  /\ this = 1
  /\ res = 0
  /\ call = Call("none", NoBlock, NoBlock, FALSE)
  /\ leaked = 0
  /\ status = "ok"
  /\ fileIdle
  /\ sphIdle

\* clone = this->Clone()
CloneCall ==
  /\ status = "ok" /\ res = 0
  /\ LET id == Fresh(mem)
     IN /\ mem' = (id :> Clone(mem[this])) @@ mem
        /\ res' = id
  /\ call' = Call("Clone", NoBlock, NoBlock, FALSE)
  /\ UNCHANGED <<this, leaked, status>>
  /\ UNCHANGED <<fileVars, sphVars>>

\* clone->Set(row, col, val), once, on the clone just made
SetCall ==
  /\ status = "ok" /\ res # 0 /\ call.op = "Clone"
  /\ \E row \in 0..(Height(mem[res]) - 1), col \in 0..(Width(mem[res]) - 1),
        val \in 0..(MaxVal + 1) :
       mem' = [mem EXCEPT ![res] = GslMatrixSet(@, row, col, val)]
  /\ call' = Call("Set", NoBlock, NoBlock, FALSE)
  /\ UNCHANGED <<this, res, leaked, status>>
  /\ UNCHANGED <<fileVars, sphVars>>

\* delete of the Matrix the last call returned: ~Matrix frees its block
DestroyCall ==
  /\ status = "ok" /\ res # 0 /\ mem[res].kind = "matrix"
  /\ mem' = Release(mem, res)
  /\ res' = 0
  /\ call' = Call("Destroy", NoBlock, NoBlock, FALSE)
  /\ UNCHANGED <<this, leaked, status>>
  /\ UNCHANGED <<fileVars, sphVars>>

\* the state after a call of the receiver that ended with outcome o;
\* a call that returns has lost one block (inverse, or result)
Returned(op, o, recv, other, copy) ==
  /\ status' = o.status
  /\ call' = Call(op, other, copy, o.oob)
  /\ IF o.status = "ok"
       THEN LET id == Fresh(mem)
            IN /\ mem' = (id :> o.ret) @@ [mem EXCEPT ![this] = recv]
               /\ res' = id
               /\ leaked' = leaked + 1
       ELSE /\ mem' = [mem EXCEPT ![this] = recv]
            /\ UNCHANGED <<res, leaked>>
  /\ UNCHANGED this
  /\ UNCHANGED <<fileVars, sphVars>>

\* ret = this->Invert()
InvertCall ==
  /\ status = "ok" /\ res = 0 /\ leaked < MaxLeaked
  /\ \E garbage \in Uninit(Height(mem[this]) * Width(mem[this])) :
       \E o \in InvertOutcomes(mem[this], garbage) :
         Returned("Invert", [status |-> o.status, ret |-> o.ret, oob |-> FALSE],
                  o.recv, NoBlock, o.copy)

\* ret = this->Multiply(other), other a Matrix
MultiplyMatrixCall ==
  /\ status = "ok" /\ res = 0 /\ leaked < MaxLeaked
  /\ \E other \in Matrices(MaxOtherCells, MaxVal) :
       \E o \in MultiplyMatrixOutcomes(mem[this], other) :
         Returned("MultiplyMatrix", o, mem[this], other, NoBlock)

\* ret = this->Multiply(vec), vec a Vector
MultiplyVectorCall ==
  /\ status = "ok" /\ res = 0 /\ leaked < MaxLeaked
  /\ \E vec \in Vectors(MaxOtherCells, MaxVal) :
       \E o \in MultiplyVectorOutcomes(mem[this], vec) :
         Returned("MultiplyVector", o, mem[this], vec, NoBlock)

Next ==
  \/ CloneCall
  \/ SetCall
  \/ DestroyCall
  \/ InvertCall
  \/ MultiplyMatrixCall
  \/ MultiplyVectorCall

Spec == Init /\ [][Next]_vars

----------------------------------------------------------------------------
(* Matrix::Matrix(filename): NumberOfRows, NumberOfColumns, gsl_matrix_fscanf *)

EOF == "EOF"

DigitVal(c) ==
  CASE c = "1" -> 1 [] c = "2" -> 2 [] c = "3" -> 3
    [] c = "4" -> 4 [] c = "5" -> 5 [] c = "6" -> 6

\* the characters of the enumerated files
Chars == {"1", "2", " ", "\n"}

\* the file of the spec's parsing example
ExampleFile ==
  <<"1", " ", "2", " ", "3", "\n", "4", " ", "5", " ", "6", "\n">>

Files == UNION {[1..n -> Chars] : n \in 0..MaxFileLen} \cup {ExampleFile}

\* isspace, on the characters of a file and on (char)EOF
IsSpace(c) == c \in {" ", "\n"}

\* fgetc(f): the character read (EOF at the end, which sets the indicator
\* and leaves the position)
Fgetc(f, pos) ==
  IF pos < Len(f)
    THEN [c |-> At(f, pos), pos |-> pos + 1, eof |-> FALSE]
    ELSE [c |-> EOF, pos |-> pos, eof |-> TRUE]

\* the values fscanf("%lg") reads from position i on: inTok, val: the number
\* being read
RECURSIVE ScanTokens(_, _, _, _)
ScanTokens(f, i, inTok, val) ==
  IF i >= Len(f) THEN (IF inTok THEN <<val>> ELSE <<>>)
  ELSE IF IsSpace(At(f, i))
    THEN (IF inTok THEN <<val>> ELSE <<>>) \o ScanTokens(f, i + 1, FALSE, 0)
  ELSE ScanTokens(f, i + 1, TRUE, 10 * val + DigitVal(At(f, i)))

\* gsl_matrix_alloc(rows, cols), then gsl_matrix_fscanf(f, m): the block, or
\* an abort by GSL's default error handler when the file holds fewer than
\* rows * cols numbers ("fscanf failed"), or when a dimension is 0 and the
\* GSL is one that refuses it (GSL 1)
ScanOutcomes(f, nrows, ncols) ==
  LET toks == ScanTokens(f, 0, FALSE, 0)
  IN (IF Len(toks) >= nrows * ncols
        THEN {[pc |-> "done",
               m |-> Block("matrix", nrows, ncols,
                           [k \in 1..(nrows * ncols) |-> toks[k]], 1)]}
        ELSE {[pc |-> "aborted", m |-> NoBlock]})
     \cup (IF nrows = 0 \/ ncols = 0
             THEN {[pc |-> "aborted", m |-> NoBlock]} ELSE {})

InitFile ==
  /\ file \in Files
  /\ fpos = 0 /\ feof = FALSE /\ pc = "open"
  /\ lastChar = "" /\ count = 0 /\ rows = 0 /\ cols = 0 /\ fm = NoBlock
  /\ reads = 0
  /\ matIdle
  /\ sphIdle

\* f = fopen(filename, "r") succeeds; NumberOfRows starts
OpenFile ==
  /\ pc = "open"
  /\ pc' = "rows"
  /\ lastChar' = "\n"
  /\ count' = 0
  /\ UNCHANGED <<file, fpos, feof, rows, cols, fm, reads>>
  /\ UNCHANGED <<matVars, sphVars>>

\* fopen fails: perror, throw "File read error."
OpenFails ==
  /\ pc = "open"
  /\ pc' = "failed"
  /\ UNCHANGED <<file, fpos, feof, lastChar, count, rows, cols, fm, reads>>
  /\ UNCHANGED <<matVars, sphVars>>

\* one turn of NumberOfRows's loop; at EOF the loop ends, fseek rewinds,
\* and NumberOfColumns starts.  currentChar is a char: the files are ASCII
\* and char is signed, so that only the end of the file compares equal to EOF
RowsStep ==
  /\ pc = "rows"
  /\ LET g == Fgetc(file, fpos)
     IN IF g.c # EOF
          THEN /\ count' = IF lastChar = "\n" /\ g.c # "\n" THEN count + 1 ELSE count
               /\ lastChar' = g.c
               /\ fpos' = g.pos
               /\ feof' = g.eof
               /\ UNCHANGED <<pc, rows>>
          ELSE /\ rows' = count
               /\ fpos' = 0
               /\ feof' = FALSE
               /\ pc' = "cols"
               /\ lastChar' = " "
               /\ count' = 0
  /\ reads' = (reads + 1) % 2
  /\ UNCHANGED <<file, cols, fm>>
  /\ UNCHANGED <<matVars, sphVars>>

\* one turn of NumberOfColumns's loop; only a newline ends it
ColsStep ==
  /\ pc = "cols"
  /\ LET g == Fgetc(file, fpos)
     IN IF g.c # "\n"
          THEN /\ count' = IF IsSpace(lastChar) /\ ~IsSpace(g.c)
                             THEN count + 1 ELSE count
               /\ lastChar' = g.c
               /\ fpos' = g.pos
               /\ feof' = g.eof
               /\ UNCHANGED <<pc, cols>>
          ELSE /\ cols' = count
               /\ fpos' = 0
               /\ feof' = FALSE
               /\ pc' = "scan"
               /\ UNCHANGED <<lastChar, count>>
  /\ reads' = (reads + 1) % 2
  /\ UNCHANGED <<file, rows, fm>>
  /\ UNCHANGED <<matVars, sphVars>>

\* gsl_matrix_alloc, gsl_matrix_fscanf, fclose
ScanFile ==
  /\ pc = "scan"
  /\ \E o \in ScanOutcomes(file, rows, cols) :
       /\ pc' = o.pc
       /\ fm' = o.m
  /\ UNCHANGED <<file, fpos, feof, lastChar, count, rows, cols, reads>>
  /\ UNCHANGED <<matVars, sphVars>>

NextFile ==
  \/ OpenFile
  \/ OpenFails
  \/ RowsStep
  \/ ColsStep
  \/ ScanFile

SpecFile == InitFile /\ [][NextFile]_vars

\* a running loop keeps running: the constructor is sequential code
FairSpecFile == SpecFile /\ WF_vars(NextFile)

----------------------------------------------------------------------------
(* Matrix::Sphere *)

RECURSIVE Gcd(_, _)
Gcd(a, b) == IF b = 0 THEN a ELSE Gcd(b, a % b)

Abs(x) == IF x < 0 THEN -x ELSE x

\* a division by zero gave it (an infinity or a NaN)
NotFinite == [n |-> 0, d |-> 0, ra |-> 0, rb |-> 0]

\* the largest k >= from with k * k dividing x, or best
RECURSIVE SquarePart(_, _, _)
SquarePart(x, from, best) ==
  IF from * from > x THEN best
  ELSE SquarePart(x, from + 1, IF x % (from * from) = 0 THEN from ELSE best)

\* the number (n / d) * sqrt(ra / rb), ra >= 0 and rb >= 0, in its normal
\* form: n / d in lowest terms, d > 0, ra and rb square-free and coprime
Surd(n, d, ra, rb) ==
  IF d = 0 \/ rb = 0 THEN NotFinite
  ELSE IF n = 0 \/ ra = 0 THEN [n |-> 0, d |-> 1, ra |-> 1, rb |-> 1]
  ELSE LET gr == Gcd(ra, rb)
           ka == SquarePart(ra \div gr, 1, 1)
           kb == SquarePart(rb \div gr, 1, 1)
           nn == (IF d < 0 THEN -n ELSE n) * ka
           dd == Abs(d) * kb
           g == Gcd(Abs(nn), dd)
       IN [n |-> nn \div g, d |-> dd \div g,
           ra |-> (ra \div gr) \div (ka * ka), rb |-> (rb \div gr) \div (kb * kb)]

SurdOfInt(x) == Surd(x, 1, 1, 1)

\* x + y for rationals x and y (ra = rb = 1)
SurdAdd(x, y) == Surd(x.n * y.d + y.n * x.d, x.d * y.d, 1, 1)

SurdNeg(x) == Surd(-x.n, x.d, x.ra, x.rb)

SurdMul(x, y) == Surd(x.n * y.n, x.d * y.d, x.ra * y.ra, x.rb * y.rb)

\* 1.0 / x for x > 0 or x = 0 (which gives a number that is not finite)
SurdInv(x) == Surd(x.d, x.n, x.rb, x.ra)

\* the integer matrix of height h and width w with cells d, as surds
SurdMatrix(h, w, d) ==
  Block("matrix", h, w, [k \in 1..(h * w) |-> SurdOfInt(d[k])], 1)

\* Matrix::Column(col), gsl_matrix_get_col: a copy of the column's cells
Column(b, col) == [row \in 1..Height(b) |-> GslMatrixGet(b, row - 1, col)]

\* gsl_matrix_set_col(m, col, v)
GslMatrixSetCol(b, col, v) ==
  [b EXCEPT !.data = [k \in 1..Len(b.data) |->
                        IF (k - 1) % b.size2 = col
                          THEN v[((k - 1) \div b.size2) + 1] ELSE b.data[k]]]

\* gsl_stats_mean(data, 1, n) of n integers: their sum over n
GslStatsMean(data, n) == Surd(SumSeq([i \in 1..n |-> data[i].n]), n, 1, 1)

\* a standard deviation with divisor n (the population's) instead of n - 1
GslStatsSdPopulation(data, n) ==
  LET S == SumSeq([i \in 1..n |-> data[i].n])
      Q == SumSeq([i \in 1..n |-> (n * data[i].n - S) * (n * data[i].n - S)])
  IN Surd(1, n, Q, n)

\* gsl_stats_sd(data, 1, n) of n integers: the square root of the sum of the
\* squared deviations from the mean over n - 1, which is
\* (1 / n) * sqrt(sum of (n * x - S)^2 / (n - 1)), S the sum
GslStatsSd(data, n) ==
  LET S == SumSeq([i \in 1..n |-> data[i].n])
      Q == SumSeq([i \in 1..n |-> (n * data[i].n - S) * (n * data[i].n - S)])
  IN Surd(1, n, Q, n - 1)

\* gsl_vector_add_constant(v, x)
GslVectorAddConstant(v, x) == [i \in 1..Len(v) |-> SurdAdd(v[i], x)]

\* gsl_vector_scale(v, x)
GslVectorScale(v, x) == [i \in 1..Len(v) |-> SurdMul(v[i], x)]

\* the loop of Matrix::Sphere from column col on
RECURSIVE SphereLoop(_, _)
SphereLoop(b, col) ==
  IF col >= Width(b) THEN b
  ELSE LET height == Height(b)
           vec == Column(b, col)
           mean == GslStatsMean(vec, height)
           stdev == GslStatsSd(vec, height)
           centred == GslVectorAddConstant(vec, SurdNeg(mean))
           scaled == GslVectorScale(centred, SurdInv(stdev))
       IN SphereLoop(GslMatrixSetCol(b, col, scaled), col + 1)

\* Matrix::Sphere
Sphere(b) == SphereLoop(b, 0)

InitSphere ==
  /\ \E hw \in Shapes(SphMaxCells) :
       \E d \in [1..(hw[1] * hw[2]) -> 0..SphMaxVal] :
         sm = SurdMatrix(hw[1], hw[2], d)
  /\ spc = "ready"
  /\ matIdle
  /\ fileIdle

\* m->Sphere()
SphereCall ==
  /\ spc = "ready"
  /\ sm' = Sphere(sm)
  /\ spc' = "done"
  /\ UNCHANGED <<matVars, fileVars>>

NextSphere == SphereCall

SpecSphere == InitSphere /\ [][NextSphere]_vars

----------------------------------------------------------------------------
(* Claims about Clone, Multiply and Invert, under Spec *)

\* a and b have the same height and width and equal cells
SameShapeAndCells(a, b) ==
  /\ Height(a) = Height(b)
  /\ Width(a) = Width(b)
  /\ \A r \in 0..(Height(b) - 1), c \in 0..(Width(b) - 1) :
       GslMatrixGet(a, r, c) = GslMatrixGet(b, r, c)

\* the dot product of row i of a and row j of b, over the cells of row i
RowDot(a, i, b, j) ==
  SumSeq([k \in 1..Width(a) |-> GslMatrixGet(a, i, k - 1) * GslMatrixGet(b, j, k - 1)])

\* C1: Clone(M) has M's height and width and M's cells, whatever M's shape,
\* and a later Set on the clone changes no cell of M.
C1_CloneIsIndependentCopy ==
  [][/\ (res = 0 /\ call'.op = "Clone") => SameShapeAndCells(mem'[res'], mem[this])
     /\ (call.op = "Clone" /\ call'.op = "Set") => mem'[this'] = mem[this]]_vars

\* C2: for A of shape m x k and B of shape n x k, A.Multiply(B) returns an
\* m x n matrix whose entry (i, j) is the dot product of row i of A and row
\* j of B.
C2_MultiplyMatrixIsRowDots ==
  (call.op = "MultiplyMatrix" /\ Width(call.other) = Width(mem[this])) =>
    /\ status = "ok"
    /\ res # 0
    /\ mem[res].kind = "matrix"
    /\ Height(mem[res]) = Height(mem[this])
    /\ Width(mem[res]) = Height(call.other)
    /\ mem[res].den = 1
    /\ \A i \in 0..(Height(mem[this]) - 1), j \in 0..(Height(call.other) - 1) :
         GslMatrixGet(mem[res], i, j) = RowDot(mem[this], i, call.other, j)

\* a 2 x 2 receiver was multiplied by a matrix of the same width and an
\* entry of the product sums two non-zero terms
C2_Witness ==
  /\ call.op = "MultiplyMatrix" /\ status = "ok"
  /\ Height(mem[this]) = 2 /\ Width(mem[this]) = 2
  /\ Width(call.other) = 2
  /\ \E i \in 0..1 : GslMatrixGet(mem[res], i, 0) = 2

\* C3: when the widths differ, Multiply(Matrix) fails and returns no matrix.
C3_MultiplyMatrixRejectsMismatch ==
  (call.op = "MultiplyMatrix" /\ Width(call.other) # Width(mem[this])) =>
    (status # "ok" /\ res = 0)

\* C4: for A of shape h x w and v of length w, A.Multiply(v) returns a
\* vector of length h whose entry i is the dot product of row i of A and v,
\* and dgemm stays inside v and inside the result buffer.
C4_MultiplyVectorIsRowDots ==
  (call.op = "MultiplyVector" /\ Size(call.other) = Width(mem[this])) =>
    /\ status = "ok"
    /\ res # 0
    /\ ~call.oob
    /\ mem[res].kind = "vector"
    /\ Size(mem[res]) = Height(mem[this])
    /\ \A i \in 0..(Height(mem[this]) - 1) :
         At(mem[res].data, i) =
           SumSeq([k \in 1..Width(mem[this]) |->
                     GslMatrixGet(mem[this], i, k - 1) * At(call.other.data, k - 1)])

\* the n x n block x, whose cells are over x.den, is the inverse of the
\* n x n block m in the standard product: m . x = identity
IsInverse(m, x) ==
  /\ x.den # 0
  /\ Height(x) = Height(m) /\ Width(x) = Width(m)
  /\ \A i \in 0..(Height(m) - 1), j \in 0..(Width(m) - 1) :
       SumSeq([k \in 1..Width(m) |->
                 GslMatrixGet(m, i, k - 1) * GslMatrixGet(x, k - 1, j)])
         = (IF i = j THEN x.den ELSE 0)

\* C5: for an invertible square M, Invert() decomposes a working copy whose
\* cells are M's and returns X with M . X the identity.
C5_InvertIsInverse ==
  (/\ call.op = "Invert"
   /\ Height(mem[this]) = Width(mem[this])
   /\ Det(Height(mem[this]), mem[this].data) # 0) =>
    /\ status = "ok"
    /\ res # 0
    /\ SameShapeAndCells(call.copy, mem[this])
    /\ IsInverse(mem[this], mem[res])

\* C6: Invert() leaves the receiver as it was: same height, same width,
\* every cell the value it held before the call.
C6_InvertKeepsReceiver ==
  [][(res = 0 /\ call'.op = "Invert") =>
       SameShapeAndCells(mem'[this'], mem[this])]_vars

\* Invert() has returned on a 2 x 2 receiver that is not symmetric and whose
\* working copy held other cells than the receiver's
C6_Witness ==
  /\ call.op = "Invert" /\ status = "ok"
  /\ Height(mem[this]) = 2 /\ Width(mem[this]) = 2
  /\ GslMatrixGet(mem[this], 0, 1) # GslMatrixGet(mem[this], 1, 0)
  /\ call.copy.data # mem[this].data

\* C10: after Invert() and Multiply(Matrix) calls, every block a call
\* allocated has been freed or belongs to the matrix returned.
C10_NoBlockOutstanding ==
  (status = "ok" /\ call.op \in {"Invert", "MultiplyMatrix"}) => leaked = 0

----------------------------------------------------------------------------
(* Claims about the file constructor, under SpecFile and FairSpecFile *)

Newlines(f) == {i \in 1..Len(f) : f[i] = "\n"}

FirstLineEndsWithNewline(f) == Newlines(f) # {}

Least(S) == CHOOSE x \in S : \A y \in S : x <= y

LineStarts(f) == {i \in 1..Len(f) : i = 1 \/ f[i - 1] = "\n"}

LineEnd(f, i) == Least({j \in i..Len(f) : f[j] = "\n"} \cup {Len(f) + 1})

\* the lines that hold a character other than white space
NonBlankLines(f) ==
  {i \in LineStarts(f) : \E k \in i..(LineEnd(f, i) - 1) : ~IsSpace(f[k])}

\* where the tokens of the first line start
FirstLineTokens(f) ==
  {i \in 1..(LineEnd(f, 1) - 1) : ~IsSpace(f[i]) /\ (i = 1 \/ IsSpace(f[i - 1]))}

\* C7: for a file whose first line ends with a newline, the constructor
\* yields a matrix with as many rows as the file has non-blank lines, as many
\* columns as the first line has tokens, and the file's tokens as its cells
\* in row-major order; the example file yields 1 2 3 / 4 5 6.
C7_FileYieldsMatrix ==
  (pc \in {"done", "aborted"} /\ FirstLineEndsWithNewline(file)) =>
    /\ pc = "done"
    /\ Height(fm) = Cardinality(NonBlankLines(file))
    /\ Width(fm) = Cardinality(FirstLineTokens(file))
    /\ Len(ScanTokens(file, 0, FALSE, 0)) >= Height(fm) * Width(fm)
    /\ \A r \in 0..(Height(fm) - 1), c \in 0..(Width(fm) - 1) :
         GslMatrixGet(fm, r, c) = At(ScanTokens(file, 0, FALSE, 0), r * Width(fm) + c)
    /\ (file = ExampleFile =>
          fm = Block("matrix", 2, 3, <<1, 2, 3, 4, 5, 6>>, 1))

\* C9: the constructor ends, completed or failed, whatever file was opened.
C9_ConstructionTerminates == <>(pc \in {"done", "failed", "aborted"})

----------------------------------------------------------------------------
(* Claim about Sphere, under SpecSphere *)

RECURSIVE ProdSeq(_)
ProdSeq(s) == IF s = <<>> THEN 1 ELSE Head(s) * ProdSeq(Tail(s))

SurdFinite(x) == x.d # 0 /\ x.rb # 0

SurdSign(x) ==
  IF x.n = 0 \/ x.ra = 0 THEN 0 ELSE IF (x.n > 0) = (x.d > 0) THEN 1 ELSE -1

\* x and y are the same finite number
SurdEq(x, y) ==
  /\ SurdFinite(x) /\ SurdFinite(y)
  /\ SurdSign(x) = SurdSign(y)
  /\ x.n * x.n * x.ra * y.d * y.d * y.rb = y.n * y.n * y.ra * x.d * x.d * x.rb

\* the cells of column col, in row order
ColCells(b, col) == [row \in 1..Height(b) |-> GslMatrixGet(b, row - 1, col)]

\* cell i's numerator over the common denominator of the cells of v
Scaled(v, i) ==
  v[i].n * ProdSeq([j \in 1..Len(v) |-> IF j = i THEN 1 ELSE v[j].d])

\* the cells of v are finite, and those that are not 0 are rational
\* multiples of sqrt(ra / rb)
OneRoot(v, ra, rb) ==
  \A i \in 1..Len(v) :
    SurdFinite(v[i]) /\ (v[i].n # 0 => v[i].ra * rb = ra * v[i].rb)

\* the mean of column col is 0
ColMeanIsZero(b, col) ==
  LET v == ColCells(b, col)
  IN /\ \E i \in 1..Len(v) : OneRoot(v, v[i].ra, v[i].rb)
     /\ SumSeq([i \in 1..Len(v) |-> Scaled(v, i)]) = 0

\* the sample standard deviation (divisor height - 1) of column col, whose
\* mean is 0, is 1
ColSdIsOne(b, col) ==
  LET v == ColCells(b, col)
      D == ProdSeq([j \in 1..Len(v) |-> v[j].d])
  IN \E i \in 1..Len(v) :
       /\ v[i].n # 0
       /\ OneRoot(v, v[i].ra, v[i].rb)
       /\ v[i].ra * SumSeq([k \in 1..Len(v) |-> Scaled(v, k) * Scaled(v, k)])
            = (Height(b) - 1) * v[i].rb * D * D

\* (cell - column mean) / column sample standard deviation, from the
\* integer cells of b
Standardized(b, row, col) ==
  LET h == Height(b)
      x(r) == GslMatrixGet(b, r, col).n
      S == SumSeq([r \in 1..h |-> x(r - 1)])
      Q == SumSeq([r \in 1..h |-> (h * x(r - 1) - S) * (h * x(r - 1) - S)])
  IN Surd(h * x(row) - S, 1, h - 1, Q)

HasVariance(b, col) ==
  \E r1, r2 \in 0..(Height(b) - 1) :
    GslMatrixGet(b, r1, col).n # GslMatrixGet(b, r2, col).n

\* C8: after Sphere on a matrix of at least two rows, every column whose
\* values had non-zero variance has mean 0 and sample standard deviation 1,
\* each cell being (old cell - column mean) / column sample standard
\* deviation of that column's original values.
C8_SphereStandardizes ==
  [][(spc = "ready" /\ spc' = "done" /\ Height(sm) >= 2) =>
       \A col \in 0..(Width(sm) - 1) :
         HasVariance(sm, col) =>
           /\ ColMeanIsZero(sm', col)
           /\ ColSdIsOne(sm', col)
           /\ \A row \in 0..(Height(sm) - 1) :
                SurdEq(GslMatrixGet(sm', row, col), Standardized(sm, row, col))]_vars

\* a matrix of three rows and two columns was sphered, both columns had
\* variance, and their standard deviations differed
C8_Witness ==
  /\ spc = "done"
  /\ Height(sm) = 3 /\ Width(sm) = 2
  /\ SurdFinite(GslMatrixGet(sm, 0, 0)) /\ SurdFinite(GslMatrixGet(sm, 0, 1))
  /\ GslMatrixGet(sm, 0, 0).rb # GslMatrixGet(sm, 0, 1).rb
  /\ GslMatrixGet(sm, 0, 0).n # 0

====
